---- MODULE Spec2Model ----
(***************************************************************************)
(* Model of src/training.py: TrainingThread (the worker that owns the      *)
(* child process and its reader thread) and TrainingManager (the progress  *)
(* extractor living in the GUI thread).                                    *)
(*                                                                         *)
(* Threads: the GUI (main) thread runs start_training / stop_training and  *)
(* the slots; each run has a QThread worker (TrainingThread.run) and a     *)
(* reader thread (read_output).  Signals emitted by the worker and the     *)
(* reader are received by the manager in the GUI thread, so they are       *)
(* queued and delivered when the GUI thread is back in its event loop.     *)
(***************************************************************************)
EXTENDS Integers, Sequences, FiniteSets, TLC

\* ------------------------------------------------------------------------
\* Bounds of the model
\* ------------------------------------------------------------------------
MaxRuns == 2      \* calls of start_training (a run is named by its call)
MaxLines == 1     \* lines read from the child processes, all runs together
MaxStops == 1     \* calls of stop_training that find a run active
MaxParsed == 3    \* lines fed to process_progress_line in ParseSpec
MaxRaw == 2       \* lines read from the child process in ReadSpec

Runs == 1..MaxRuns

\* ------------------------------------------------------------------------
\* Output lines.  A line is represented by its text (id) and by what the
\* regular expressions of process_progress_line find in it:
\*   saved : <<>> when "Results saved to" is not in the line, <<p>> when it
\*           is; p is the path group, or NoPath when the path regex fails
\*   ep    : <<>> or <<[ce, te, loss, cb, tb, tm]>>, the groups of
\*           epoch_pattern; tm is <<>> or <<em, es, rm, rs>> (time_pattern)
\*   fin   : <<>> or <<a, b>>   groups of final_metrics_pattern
\*   map   : <<>> or <<a, b>>   groups of map_pattern
\*   pr    : <<>> or <<a, b>>   groups of pr_pattern
\* Decimal numbers are thousandths (0.431 is 431); BadNum is a group such
\* as "1.2.3" that the pattern [0-9\.]+ accepts and float() rejects.
\* ------------------------------------------------------------------------
BadNum == -1
NoPath == ""

Line(id, saved, ep, fin, map, pr) ==
    [id |-> id, saved |-> saved, ep |-> ep, fin |-> fin, map |-> map, pr |-> pr]

Ep(ce, te, loss, cb, tb, tm) ==
    <<[ce |-> ce, te |-> te, loss |-> loss, cb |-> cb, tb |-> tb, tm |-> tm]>>

LOther  == Line("hello", <<>>, <<>>, <<>>, <<>>, <<>>)
LEpoch  == Line("5/100 0.431 45/90 [00:30<00:30", <<>>,
                Ep(5, 100, 431, 45, 90, <<0, 30, 0, 30>>), <<>>, <<>>, <<>>)
LEpoch2 == Line("2/3 0.250 1/2", <<>>, Ep(2, 3, 250, 1, 2, <<>>), <<>>, <<>>, <<>>)
LEpochOver == Line("7/3 0.100 3/2 [61:05<00:00", <<>>,
                Ep(7, 3, 100, 3, 2, <<61, 5, 0, 0>>), <<>>, <<>>, <<>>)
LEpochBadLoss == Line("4/9 1.2.3 1/2", <<>>, Ep(4, 9, BadNum, 1, 2, <<>>), <<>>, <<>>, <<>>)
LEpochZeroBatch == Line("6/9 0.500 0/0", <<>>, Ep(6, 9, 500, 0, 0, <<>>), <<>>, <<>>, <<>>)
LEpochZero == Line("0/0 0.700 1/2", <<>>, Ep(0, 0, 700, 1, 2, <<>>), <<>>, <<>>, <<>>)
LFinal  == Line("all 0.911 0.983", <<>>, <<>>, <<911, 983>>, <<>>, <<>>)
LMap    == Line("mAP50-95 0.500 x mAP50 0.700", <<>>, <<>>, <<>>, <<500, 700>>, <<>>)
LMapBad == Line("mAP50-95 0.5. x mAP50 0.700", <<>>, <<>>, <<>>, <<BadNum, 700>>, <<>>)
LPR     == Line("precision 0.800 x recall 0.600", <<>>, <<>>, <<>>, <<>>, <<800, 600>>)
LFinalPR == Line("all 0.911 0.983 precision 0.800 x recall 0.600", <<>>, <<>>,
                 <<911, 983>>, <<>>, <<800, 600>>)
LEpochFirst == Line("0/5 0.900 1/2", <<>>, Ep(0, 5, 900, 1, 2, <<>>), <<>>, <<>>, <<>>)
LSaved  == Line("Results saved to runs/a", <<"runs/a">>, <<>>, <<>>, <<>>, <<>>)
LSaved2 == Line("Results saved to runs/b", <<"runs/b">>, <<>>, <<>>, <<>>, <<>>)
LSavedBad == Line("Results saved to", <<NoPath>>, <<>>, <<>>, <<>>, <<>>)

\* lines fed to the extractor in ParseSpec
Lines == {LOther, LEpoch, LEpoch2, LEpochOver, LEpochBadLoss, LEpochZeroBatch,
          LEpochZero, LEpochFirst, LFinal, LFinalPR, LMap, LMapBad, LPR,
          LSaved, LSaved2, LSavedBad}

\* lines a child process writes in Spec
LifeLines == {LEpoch2}

\* values of params['epochs'] (default 100, src/training.py:126)
EpochParams == {100}

\* ------------------------------------------------------------------------
\* Raw output of a child process.  A raw line is the sequence of its pieces
\* before the newline: a piece of valid UTF-8 text, a blank, or a byte that
\* is not valid UTF-8.
\* ------------------------------------------------------------------------
InvalidByte == "<FF>"
ReplacementChar == "<U+FFFD>"
Blank == " "

RawLines == {<<InvalidByte>>, <<Blank, InvalidByte, "ok", Blank>>, <<Blank>>, <<"ok">>}

\* (variant: errors='ignore', the undecodable bytes are dropped)
Decode_Ignore(raw) == SelectSeq(raw, LAMBDA b : b # InvalidByte)

\* the text stream of Popen(encoding='utf-8', errors='replace'), lines 38-48:
\* every undecodable byte becomes U+FFFD, nothing raises
Decode(raw) ==
    [i \in DOMAIN raw |-> IF raw[i] = InvalidByte THEN ReplacementChar ELSE raw[i]]

\* str.strip() of line 55
RECURSIVE LStrip(_)
LStrip(q) == IF q # <<>> /\ Head(q) = Blank THEN LStrip(Tail(q)) ELSE q

RECURSIVE RStrip(_)
RStrip(q) ==
    IF q # <<>> /\ q[Len(q)] = Blank THEN RStrip(SubSeq(q, 1, Len(q) - 1)) ELSE q

Strip(q) == RStrip(LStrip(q))

\* the pieces as one string
RECURSIVE Join(_)
Join(q) == IF q = <<>> THEN "" ELSE Head(q) \o Join(Tail(q))

\* the line the reader forwards for a raw line (line 55); the texts of
\* RawLines match none of the patterns of process_progress_line
Received(raw) ==
    [id |-> Join(Strip(Decode(raw))), saved |-> <<>>, ep |-> <<>>, fin |-> <<>>,
     map |-> <<>>, pr |-> <<>>, raw |-> raw]

\* a line matches none of the recognized shapes
Unrecognized(l) ==
    l.saved = <<>> /\ l.ep = <<>> /\ l.fin = <<>> /\ l.map = <<>> /\ l.pr = <<>>

\* ------------------------------------------------------------------------
\* Pure helpers of process_progress_line
\* ------------------------------------------------------------------------
RECURSIVE Gcd(_, _)
Gcd(a, b) == IF b = 0 THEN a ELSE Gcd(b, a % b)

\* the exact value of a quotient, as a reduced fraction <<num, den>>
Frac(n, d) == LET g == Gcd(n, d) IN IF g = 0 THEN <<0, 1>> ELSE <<n \div g, d \div g>>

\* (variant: the epoch under way is counted as completed)
TotalProgress_WholeEpochs(ce, te, cb, tb) == Frac((ce * tb + cb) * 100, te * tb)

\* total_progress of lines 377-379:
\*   ((ce - 1) / te + (cb / tb) / te) * 100
TotalProgress(ce, te, cb, tb) == Frac(((ce - 1) * tb + cb) * 100, te * tb)

\* (variant: the seconds are dropped)
TimedeltaStr_MinutesOnly(m, s) ==
    LET t == m * 60
    IN  <<t \div 3600, (t % 3600) \div 60, t % 60>>

\* str(timedelta(minutes=m, seconds=s)) as <<hours, minutes, seconds>>
TimedeltaStr(m, s) ==
    LET t == m * 60 + s
    IN  <<t \div 3600, (t % 3600) \div 60, t % 60>>

\* dict assignment d[k] = v
Put(d, k, v) == [x \in (DOMAIN d) \cup {k} |-> IF x = k THEN v ELSE d[x]]

EmptyDict == [x \in {} |-> 0]

DefaultDir == "runs/train/exp"

\* ------------------------------------------------------------------------
\* TrainingManager.process_progress_line (lines 332-453) as a function of
\* the manager's fields m and the line l.  Every step works on
\* [m, info, exc]: the fields, the progress_info dict and whether an
\* exception has been raised (the rest of the try block is then skipped).
\* ------------------------------------------------------------------------
Fields(ce, te, met, dir) ==
    [current_epoch |-> ce, total_epochs |-> te, current_metrics |-> met,
     training_dir |-> dir]

\* lines 337-342
BaseInfo(m, l) ==
    [current_epoch |-> m.current_epoch, total_epochs |-> m.total_epochs,
     metrics |-> m.current_metrics, output_line |-> l.id]

\* lines 345-351: the inner try/except absorbs the failed path search
SavedStep(r, l) ==
    IF l.saved = <<>> THEN r
    ELSE [r EXCEPT !.m.training_dir =
              IF l.saved[1] = NoPath THEN DefaultDir ELSE l.saved[1]]

\* (variant: the dict keeps the metrics copied at line 340)
EpochStep_NoRefresh(r, l) ==
    IF r.exc \/ l.ep = <<>> THEN r
    ELSE
      LET e  == l.ep[1]
          m1 == [r.m EXCEPT !.current_epoch = e.ce, !.total_epochs = e.te]
      IN  IF e.loss = BadNum
            THEN [r EXCEPT !.m = m1, !.exc = TRUE]                \* float() raises
          ELSE IF e.ce > 0 /\ e.te > 0 /\ e.tb = 0
            THEN [r EXCEPT !.m = m1, !.exc = TRUE]                \* division by zero
          ELSE
            LET i1 == IF e.ce > 0 /\ e.te > 0
                        THEN Put(r.info, "progress", TotalProgress(e.ce, e.te, e.cb, e.tb))
                        ELSE r.info
                i2 == IF e.tm = <<>> THEN i1
                      ELSE Put(Put(i1, "elapsed_time", TimedeltaStr(e.tm[1], e.tm[2])),
                               "eta", TimedeltaStr(e.tm[3], e.tm[4]))
                m2 == [m1 EXCEPT !.current_metrics = Put(@, "loss", e.loss)]
            IN  [m |-> m2, info |-> i2, exc |-> FALSE]

\* lines 357-399
EpochStep(r, l) ==
    IF r.exc \/ l.ep = <<>> THEN r
    ELSE
      LET e  == l.ep[1]
          m1 == [r.m EXCEPT !.current_epoch = e.ce, !.total_epochs = e.te]
      IN  IF e.loss = BadNum
            THEN [r EXCEPT !.m = m1, !.exc = TRUE]                \* float() raises
          ELSE IF e.ce > 0 /\ e.te > 0 /\ e.tb = 0
            THEN [r EXCEPT !.m = m1, !.exc = TRUE]                \* division by zero
          ELSE
            LET i1 == IF e.ce > 0 /\ e.te > 0
                        THEN Put(r.info, "progress", TotalProgress(e.ce, e.te, e.cb, e.tb))
                        ELSE r.info
                i2 == IF e.tm = <<>> THEN i1
                      ELSE Put(Put(i1, "elapsed_time", TimedeltaStr(e.tm[1], e.tm[2])),
                               "eta", TimedeltaStr(e.tm[3], e.tm[4]))
                m2 == [m1 EXCEPT !.current_metrics = Put(@, "loss", e.loss)]
            IN  [m |-> m2, info |-> Put(i2, "metrics", m2.current_metrics), exc |-> FALSE]

\* (variant: only the native names are stored)
FinalStep_NoAliases(r, l) ==
    IF r.exc \/ l.fin = <<>> THEN r
    ELSE
      LET met == Put(Put(r.m.current_metrics, "top1_acc", l.fin[1]), "top5_acc", l.fin[2])
      IN  [m |-> [r.m EXCEPT !.current_metrics = met],
           info |-> Put(r.info, "metrics", met), exc |-> FALSE]

\* lines 407-423
FinalStep(r, l) ==
    IF r.exc \/ l.fin = <<>> THEN r
    ELSE
      LET top1 == l.fin[1]
          top5 == l.fin[2]
          met  == Put(Put(Put(Put(Put(r.m.current_metrics,
                     "top1_acc", top1), "top5_acc", top5),
                     "mAP50-95", top1), "precision", top1), "recall", top5)
      IN  [m |-> [r.m EXCEPT !.current_metrics = met],
           info |-> Put(r.info, "metrics", met), exc |-> FALSE]

\* (variant: the two values replace the mapping)
MapStep_Fresh(r, l) ==
    IF r.exc \/ l.map = <<>> THEN r
    ELSE IF l.map[1] = BadNum \/ l.map[2] = BadNum THEN [r EXCEPT !.exc = TRUE]
    ELSE
      LET met == Put(Put(EmptyDict, "mAP50-95", l.map[1]), "mAP50", l.map[2])
      IN  [m |-> [r.m EXCEPT !.current_metrics = met],
           info |-> Put(r.info, "metrics", met), exc |-> FALSE]

\* lines 425-434
MapStep(r, l) ==
    IF r.exc \/ l.map = <<>> THEN r
    ELSE IF l.map[1] = BadNum \/ l.map[2] = BadNum THEN [r EXCEPT !.exc = TRUE]
    ELSE
      LET met == Put(Put(r.m.current_metrics, "mAP50-95", l.map[1]), "mAP50", l.map[2])
      IN  [m |-> [r.m EXCEPT !.current_metrics = met],
           info |-> Put(r.info, "metrics", met), exc |-> FALSE]

\* lines 436-445
PRStep(r, l) ==
    IF r.exc \/ l.pr = <<>> THEN r
    ELSE IF l.pr[1] = BadNum \/ l.pr[2] = BadNum THEN [r EXCEPT !.exc = TRUE]
    ELSE
      LET met == Put(Put(r.m.current_metrics, "precision", l.pr[1]), "recall", l.pr[2])
      IN  [m |-> [r.m EXCEPT !.current_metrics = met],
           info |-> Put(r.info, "metrics", met), exc |-> FALSE]

\* (variant: the except branch emits the error text instead of the line)
ProcessProgressLine_ErrorText(m, l) ==
    LET r0 == [m |-> m, info |-> BaseInfo(m, l), exc |-> FALSE]
        r5 == PRStep(MapStep(FinalStep(EpochStep(SavedStep(r0, l), l), l), l), l)
    IN  [m |-> r5.m,
         info |-> IF r5.exc THEN [error |-> "parse"] ELSE r5.info]

\* the whole handler: the new fields and the dict given to progress_update
ProcessProgressLine(m, l) ==
    LET r0 == [m |-> m, info |-> BaseInfo(m, l), exc |-> FALSE]
        r5 == PRStep(MapStep(FinalStep(EpochStep(SavedStep(r0, l), l), l), l), l)
    IN  [m |-> r5.m,
         info |-> IF r5.exc THEN [output_line |-> l.id] ELSE r5.info]

\* ------------------------------------------------------------------------
\* State
\* ------------------------------------------------------------------------
VARIABLES
    \* TrainingManager
    training_thread,   \* 0 (None) or the run whose TrainingThread it holds
    start_time,        \* 0 (None) or the ordinal of the start_training call
    current_epoch, total_epochs, current_metrics, training_dir,
    \* TrainingThread of every run
    stopped,           \* self.stopped
    process,           \* "None", "alive" or "exited"
    returncode,        \* exit code of the child once exited
    sent,              \* signals sent to the child, in order
    wpc,               \* position of run(): "new", "spawn", "wait", "done"
    rpc,               \* position of read_output: "none", "read",
                       \* "done" (left the loop by break)
    nread,             \* lines read from the children so far
    held,              \* <<>>, or the line readline has returned to the loop of
                       \* read_output, with the value of the stop flag then
    \* GUI thread
    mainpc,            \* "loop" (event loop), "sleep" (86), "wait" (327)
    caller,            \* who called stop_training: "start", "stop" or "none"
    queue,             \* signals queued for the manager
    snapshots,         \* progress_update events the consumer has received
    terminals,         \* per run, the terminal events the consumer has received
    warned,            \* the last stop_training printed its warning
    raised,            \* the last start_training call raised
    nstarts, nstops, nparsed,
    \* history
    stopAtExit,        \* self.stopped at the moment the child exited
    preempted,         \* 0, or the start_training call made while the run was active
    sentFirst          \* signals sent when the first stop() returned, or -1

mgrVars  == <<training_thread, start_time, current_epoch, total_epochs,
              current_metrics, training_dir>>
thrVars  == <<stopped, process, returncode, sent, wpc, rpc, nread, held>>
guiVars  == <<mainpc, caller, queue, snapshots, terminals, warned, raised,
              nstarts, nstops, nparsed>>
histVars == <<stopAtExit, preempted, sentFirst>>
vars == <<mgrVars, thrVars, guiVars, histVars>>

NoCode == 99
SigKillCode == -9

\* TrainingManager.__init__ (104-111); no TrainingThread exists yet
Init ==
    /\ training_thread = 0
    /\ start_time = 0
    /\ current_epoch = 0
    /\ total_epochs = 0
    /\ current_metrics = EmptyDict
    /\ training_dir = ""
    /\ stopped = [r \in Runs |-> FALSE]
    /\ process = [r \in Runs |-> "None"]
    /\ returncode = [r \in Runs |-> NoCode]
    /\ sent = [r \in Runs |-> <<>>]
    /\ wpc = [r \in Runs |-> "new"]
    /\ rpc = [r \in Runs |-> "none"]
    /\ nread = 0
    /\ held = [r \in Runs |-> <<>>]
    /\ mainpc = "loop"
    /\ caller = "none"
    /\ queue = <<>>
    /\ snapshots = <<>>
    /\ terminals = [r \in Runs |-> <<>>]
    /\ warned = FALSE
    /\ raised = FALSE
    /\ nstarts = 0
    /\ nstops = 0
    /\ nparsed = 0
    /\ stopAtExit = [r \in Runs |-> FALSE]
    /\ preempted = [r \in Runs |-> 0]
    /\ sentFirst = [r \in Runs |-> -1]

\* QThread.isRunning: start() was called and run() has not returned
IsRunning(r) == wpc[r] \in {"spawn", "wait"}

\* `self.training_thread and self.training_thread.isRunning()` (116, 325)
ThreadActive == training_thread # 0 /\ IsRunning(training_thread)

\* ------------------------------------------------------------------------
\* TrainingThread.run (33-76), one run r
\* ------------------------------------------------------------------------
Signal(sig, r, arg) == [sig |-> sig, run |-> r, arg |-> arg]

\* (variant: the exit code is not looked at)
FinishedArg_IgnoreCode(code, stop) == ~stop

\* lines 70-73: the argument of finished.emit
FinishedArg(code, stop) == code = 0 /\ ~stop

\* (variant: the failure of Popen is reported and run() goes on to its
\* finished.emit(False) all the same)
Spawn_ErrorThenFinished(r) ==
    /\ wpc[r] = "spawn"
    /\ \E ok \in BOOLEAN :
         IF ok
           THEN /\ process' = [process EXCEPT ![r] = "alive"]
                /\ rpc' = [rpc EXCEPT ![r] = "read"]
                /\ wpc' = [wpc EXCEPT ![r] = "wait"]
                /\ UNCHANGED queue
           ELSE /\ queue' = queue \o <<[sig |-> "error", run |-> r, arg |-> "launch"],
                                       [sig |-> "finished", run |-> r, arg |-> FALSE]>>
                /\ wpc' = [wpc EXCEPT ![r] = "done"]
                /\ UNCHANGED <<process, rpc>>
    /\ UNCHANGED <<mgrVars, stopped, returncode, sent, nread, held,
                   mainpc, caller, snapshots, terminals, warned, raised,
                   nstarts, nstops, nparsed, histVars>>

\* lines 36-48 and 61-63, or 75-76 when Popen raises
Spawn(r) ==
    /\ wpc[r] = "spawn"
    /\ \E ok \in BOOLEAN :
         IF ok
           THEN /\ process' = [process EXCEPT ![r] = "alive"]
                /\ rpc' = [rpc EXCEPT ![r] = "read"]
                /\ wpc' = [wpc EXCEPT ![r] = "wait"]
                /\ UNCHANGED queue
           ELSE /\ queue' = Append(queue, Signal("error", r, "launch"))
                /\ wpc' = [wpc EXCEPT ![r] = "done"]
                /\ UNCHANGED <<process, rpc>>
    /\ UNCHANGED <<mgrVars, stopped, returncode, sent, nread, held,
                   mainpc, caller, snapshots, terminals, warned, raised,
                   nstarts, nstops, nparsed, histVars>>

\* Popen raised in run r
LaunchFailed(r) == wpc[r] = "done" /\ process[r] = "None"

\* (variant: nothing is emitted for a stopped run)
WorkerFinish_SilentWhenStopped(r) ==
    /\ wpc[r] = "wait"
    /\ process[r] = "exited"
    /\ queue' = IF stopped[r] THEN queue
                ELSE Append(queue, [sig |-> "finished", run |-> r,
                                    arg |-> returncode[r] = 0])
    /\ wpc' = [wpc EXCEPT ![r] = "done"]
    /\ UNCHANGED <<mgrVars, stopped, process, returncode, sent, rpc, nread, held,
                   mainpc, caller, snapshots, terminals, warned, raised,
                   nstarts, nstops, nparsed, histVars>>

\* (variant: the terminal signal is emitted without waiting for the child)
WorkerFinish_NoWait(r) ==
    /\ wpc[r] = "wait"
    /\ queue' = Append(queue,
                  Signal("finished", r, FinishedArg(returncode[r], stopped[r])))
    /\ wpc' = [wpc EXCEPT ![r] = "done"]
    /\ UNCHANGED <<mgrVars, stopped, process, returncode, sent, rpc, nread, held,
                   mainpc, caller, snapshots, terminals, warned, raised,
                   nstarts, nstops, nparsed, histVars>>

\* lines 66-73: process.wait() returns once the child has exited;
\* join(timeout=2) returns when the reader has ended or after the timeout,
\* whichever comes first; then the terminal signal is emitted
WorkerFinish(r) ==
    /\ wpc[r] = "wait"
    /\ process[r] = "exited"
    /\ queue' = Append(queue,
                  Signal("finished", r, FinishedArg(returncode[r], stopped[r])))
    /\ wpc' = [wpc EXCEPT ![r] = "done"]
    /\ UNCHANGED <<mgrVars, stopped, process, returncode, sent, rpc, nread, held,
                   mainpc, caller, snapshots, terminals, warned, raised,
                   nstarts, nstops, nparsed, histVars>>

\* lines 52-58, one turn of the loop: readline returns the next line of the
\* child's output (also one written before the child exited), one of S; the
\* loop ends when the flag is set, otherwise the line is forwarded
ReadFrom(r, S, max) ==
    /\ rpc[r] = "read"
    /\ nread < max
    /\ nread' = nread + 1
    /\ IF stopped[r]
         THEN /\ rpc' = [rpc EXCEPT ![r] = "done"]
              /\ UNCHANGED queue
         ELSE /\ \E l \in S : queue' = Append(queue, Signal("progress_line", r, l))
              /\ UNCHANGED rpc
    /\ UNCHANGED <<mgrVars, stopped, process, returncode, sent, wpc, held,
                   mainpc, caller, snapshots, terminals, warned, raised,
                   nstarts, nstops, nparsed, histVars>>

\* the reader of a child that writes lines of LifeLines
ReadLine(r) == ReadFrom(r, LifeLines, MaxLines)

\* the reader of a child that writes raw lines, undecodable bytes included
ReadRaw(r) ==
    ReadFrom(r, LifeLines \cup {Received(raw) : raw \in RawLines}, MaxRaw)

\* line 52 alone: readline returns the next line of the child's output to
\* the loop; late records whether the stop flag was set by then
ReadGet(r) ==
    /\ rpc[r] = "read"
    /\ held[r] = <<>>
    /\ nread < MaxRaw
    /\ nread' = nread + 1
    /\ \E l \in LifeLines :
         held' = [held EXCEPT ![r] = <<[line |-> l, late |-> stopped[r]]>>]
    /\ UNCHANGED <<mgrVars, stopped, process, returncode, sent, wpc, rpc,
                   guiVars, histVars>>

\* (variant: the line is forwarded without looking at the flag)
ReadBody_NoCheck(r) ==
    /\ rpc[r] = "read"
    /\ held[r] # <<>>
    /\ queue' = Append(queue, Signal("progress_line", r, held[r][1].line))
    /\ held' = [held EXCEPT ![r] = <<>>]
    /\ UNCHANGED <<mgrVars, stopped, process, returncode, sent, wpc, rpc, nread,
                   mainpc, caller, snapshots, terminals, warned, raised,
                   nstarts, nstops, nparsed, histVars>>

\* lines 53-57, the body of the loop for the line held: break when the flag
\* is set (the loop variable keeps the line), otherwise forward the line
ReadBody(r) ==
    /\ rpc[r] = "read"
    /\ held[r] # <<>>
    /\ IF stopped[r]
         THEN /\ rpc' = [rpc EXCEPT ![r] = "done"]
              /\ UNCHANGED <<queue, held>>
         ELSE /\ queue' = Append(queue, Signal("progress_line", r, held[r][1].line))
              /\ held' = [held EXCEPT ![r] = <<>>]
              /\ UNCHANGED rpc
    /\ UNCHANGED <<mgrVars, stopped, process, returncode, sent, wpc, nread,
                   mainpc, caller, snapshots, terminals, warned, raised,
                   nstarts, nstops, nparsed, histVars>>

\* line 52: readline returns '' (the sentinel of iter) once the child has
\* exited and its output has been read: the loop is over.  No field changes
\* at that point; the bounded join of line 68 is the only observer of it.
ReaderAtEOF(r) == rpc[r] = "read" /\ process[r] = "exited"

\* read_output has ended, by break or at end of file
ReaderEnded(r) == rpc[r] = "done" \/ ReaderAtEOF(r)

\* the child process ends by itself (or in reaction to terminate())
ChildExit(r) ==
    /\ process[r] = "alive"
    /\ \E code \in {0, 1} : returncode' = [returncode EXCEPT ![r] = code]
    /\ process' = [process EXCEPT ![r] = "exited"]
    /\ stopAtExit' = [stopAtExit EXCEPT ![r] = stopped[r]]
    /\ UNCHANGED <<mgrVars, stopped, sent, wpc, rpc, nread, held, guiVars,
                   preempted, sentFirst>>

\* ------------------------------------------------------------------------
\* GUI thread: TrainingManager.start_training (113-321)
\* ------------------------------------------------------------------------
\* lines 123-127 (reset), 152-187 (direct-folder check: `self.error` is not
\* an attribute of TrainingManager, so the invalid-directory branch raises
\* out of start_training) and 317-321 (create and start the thread).
\* n is the ordinal of this start_training call; it stands for the
\* datetime.now() of line 124 and names the run.
Launch(n) ==
    /\ start_time' = n
    /\ current_epoch' = 0
    /\ \E epochs \in EpochParams : total_epochs' = epochs
    /\ current_metrics' = EmptyDict
    /\ mainpc' = "loop"
    /\ caller' = "none"
    /\ \E valid \in BOOLEAN :
         IF valid
           THEN /\ training_thread' = n
                /\ wpc' = [wpc EXCEPT ![n] = "spawn"]
                /\ raised' = FALSE
           ELSE /\ raised' = TRUE
                /\ UNCHANGED <<training_thread, wpc>>
    /\ UNCHANGED training_dir

\* ------------------------------------------------------------------------
\* GUI thread: TrainingThread.stop (78-93) inside
\* TrainingManager.stop_training (323-330)
\* ------------------------------------------------------------------------
\* sentFirst once a stop() call on t has returned with signals sigs sent
FirstStopDone(t, sigs) ==
    [sentFirst EXCEPT ![t] = IF @ = -1 THEN Len(sigs) ELSE @]

\* lines 325-326 and 80-86: set the flag; terminate() a live child and go to
\* sleep(1), otherwise stop() returns and the caller goes on to wait(5000)
StopEnter(c) ==
    LET t == training_thread
        live == process[t] = "alive"
    IN  /\ stopped' = [stopped EXCEPT ![t] = TRUE]
        /\ sent' = [sent EXCEPT ![t] = IF live THEN Append(@, "terminate") ELSE @]
        /\ mainpc' = IF live THEN "sleep" ELSE "wait"
        /\ sentFirst' = IF live THEN sentFirst ELSE FirstStopDone(t, sent[t])
        /\ caller' = c

\* (variant: kill() is called without looking at poll())
StopSleepDone_AlwaysKill ==
    LET t == training_thread
    IN  /\ mainpc = "sleep"
        /\ sent' = [sent EXCEPT ![t] = Append(@, "kill")]
        /\ process' = [process EXCEPT ![t] = "exited"]
        /\ returncode' = [returncode EXCEPT ![t] =
                              IF process[t] = "alive" THEN SigKillCode ELSE @]
        /\ stopAtExit' = [stopAtExit EXCEPT ![t] =
                              IF process[t] = "alive" THEN TRUE ELSE @]
        /\ sentFirst' = FirstStopDone(t, sent'[t])
        /\ mainpc' = "wait"
        /\ UNCHANGED <<mgrVars, stopped, wpc, rpc, nread, held,
                       caller, queue, snapshots, terminals, warned, raised,
                       nstarts, nstops, nparsed, preempted>>

\* lines 86-93: after sleep(1), kill() the child when poll() is still None
StopSleepDone ==
    LET t == training_thread
        live == process[t] = "alive"
    IN  /\ mainpc = "sleep"
        /\ sent' = [sent EXCEPT ![t] = IF live THEN Append(@, "kill") ELSE @]
        /\ process' = [process EXCEPT ![t] = "exited"]
        /\ returncode' = [returncode EXCEPT ![t] = IF live THEN SigKillCode ELSE @]
        /\ stopAtExit' = [stopAtExit EXCEPT ![t] = IF live THEN TRUE ELSE @]
        /\ sentFirst' = FirstStopDone(t, sent'[t])
        /\ mainpc' = "wait"
        /\ UNCHANGED <<mgrVars, stopped, wpc, rpc, nread, held,
                       caller, queue, snapshots, terminals, warned, raised,
                       nstarts, nstops, nparsed, preempted>>

\* run() has only the join of at most 2 s (line 68) and its emit ahead of it
WorkerFinishing(r) == wpc[r] = "wait" /\ process[r] = "exited"

\* (variant: wait() without a time limit)
StopWaitReturn_NoTimeout ==
    /\ mainpc = "wait"
    /\ ~IsRunning(training_thread)
    /\ warned' = FALSE
    /\ IF caller = "start"
         THEN Launch(nstarts)
         ELSE /\ mainpc' = "loop"
              /\ caller' = "none"
              /\ UNCHANGED <<mgrVars, wpc, raised>>
    /\ UNCHANGED <<stopped, process, returncode, sent, rpc, nread, held,
                   queue, snapshots, terminals, nstarts, nstops, nparsed, histVars>>

\* lines 327-330: wait(5000) returns when the thread has finished or when the
\* 5000 ms are over; a thread that is still running is reported, not awaited.
\* stop_training then returns, into start_training when that was the caller.
\* The 5000 ms do not run out on a worker whose child has exited: such a
\* worker ends within the 2 s of its join.  They do run out on a worker that
\* is still before Popen or whose child is still alive.
StopWaitReturn ==
    /\ mainpc = "wait"
    /\ ~WorkerFinishing(training_thread)
    /\ warned' = IsRunning(training_thread)
    /\ IF caller = "start"
         THEN Launch(nstarts)
         ELSE /\ mainpc' = "loop"
              /\ caller' = "none"
              /\ UNCHANGED <<mgrVars, wpc, raised>>
    /\ UNCHANGED <<stopped, process, returncode, sent, rpc, nread, held,
                   queue, snapshots, terminals, nstarts, nstops, nparsed, histVars>>

\* TrainingManager.stop_training called by the consumer (323-326); without
\* an active thread the call changes nothing
StopTraining ==
    /\ mainpc = "loop"
    /\ nstops < MaxStops
    /\ ThreadActive
    /\ nstops' = nstops + 1
    /\ StopEnter("stop")
    /\ UNCHANGED <<mgrVars, process, returncode, wpc, rpc, nread, held,
                   queue, snapshots, terminals, warned, raised, nstarts, nparsed,
                   stopAtExit, preempted>>

\* start_training called by the consumer: lines 116-117 stop the active run
\* first, otherwise the call goes straight on
StartTraining ==
    /\ mainpc = "loop"
    /\ nstarts < MaxRuns
    /\ nstarts' = nstarts + 1
    /\ IF ThreadActive
         THEN /\ StopEnter("start")
              /\ preempted' = [preempted EXCEPT ![training_thread] = nstarts + 1]
              /\ UNCHANGED <<mgrVars, wpc, raised>>
         ELSE /\ Launch(nstarts + 1)
              /\ UNCHANGED <<stopped, sent, sentFirst, preempted>>
    /\ UNCHANGED <<process, returncode, rpc, nread, held,
                   queue, snapshots, terminals, warned, nstops, nparsed, stopAtExit>>

\* ------------------------------------------------------------------------
\* GUI thread: delivery of the queued signals (connections of 318-320).
\* The names training_finished and training_error of TrainingManager are
\* bound to the Signal objects of lines 467-468, which replace the methods
\* of lines 455-463 in the class body: the thread's finished and error
\* signals are relayed to the manager's signals.
\* ------------------------------------------------------------------------
\* a progress_update event: the dict, the run whose line it was made from,
\* the start_time under which it was made and the line that was handed to
\* process_progress_line
Snapshot(r, l, info) == [run |-> r, start |-> start_time, line |-> l, info |-> info]

\* the slot process_progress_line applied to the manager's fields
ApplyLine(r, l) ==
    LET res == ProcessProgressLine(
                   Fields(current_epoch, total_epochs, current_metrics, training_dir), l)
    IN  /\ current_epoch' = res.m.current_epoch
        /\ total_epochs' = res.m.total_epochs
        /\ current_metrics' = res.m.current_metrics
        /\ training_dir' = res.m.training_dir
        /\ snapshots' = Append(snapshots, Snapshot(r, l, res.info))

Deliver ==
    /\ mainpc = "loop"
    /\ queue # <<>>
    /\ queue' = Tail(queue)
    /\ LET e == Head(queue)
       IN  IF e.sig = "progress_line"
             THEN /\ ApplyLine(e.run, e.arg)
                  /\ UNCHANGED terminals
             ELSE /\ terminals' = [terminals EXCEPT ![e.run] = Append(@,
                        [ev |-> IF e.sig = "finished" THEN "training_finished"
                                                      ELSE "training_error",
                         arg |-> e.arg])]
                  /\ UNCHANGED <<current_epoch, total_epochs, current_metrics,
                                 training_dir, snapshots>>
    /\ UNCHANGED <<training_thread, start_time, thrVars, mainpc, caller,
                   warned, raised, nstarts, nstops, nparsed, histVars>>

\* process_progress_line called with one line of the current run
Feed ==
    /\ mainpc = "loop"
    /\ training_thread # 0
    /\ nparsed < MaxParsed
    /\ nparsed' = nparsed + 1
    /\ \E l \in Lines : ApplyLine(training_thread, l)
    /\ UNCHANGED <<training_thread, start_time, thrVars, mainpc, caller, queue,
                   terminals, warned, raised, nstarts, nstops, histVars>>

\* ------------------------------------------------------------------------
\* Specifications
\* ------------------------------------------------------------------------
Next ==
    \/ StartTraining
    \/ StopTraining
    \/ StopSleepDone
    \/ StopWaitReturn
    \/ Deliver
    \/ \E r \in Runs : Spawn(r)
    \/ \E r \in Runs : WorkerFinish(r)
    \/ \E r \in Runs : ReadLine(r)
    \/ \E r \in Runs : ChildExit(r)

Spec == Init /\ [][Next]_vars

\* the extractor fed line by line, with restarts in between
ParseNext ==
    \/ StartTraining
    \/ StopWaitReturn
    \/ Feed

ParseSpec == Init /\ [][ParseNext]_vars

\* the first call of start_training
FirstStart == nstarts = 0 /\ StartTraining

\* a later call of start_training, made once metrics have accumulated
Restart == current_metrics # EmptyDict /\ StartTraining

\* the extractor fed line by line; a new run is started only when there is
\* accumulated state for it to reset
LineNext ==
    \/ FirstStart
    \/ Restart
    \/ StopWaitReturn
    \/ Feed

LineSpec == Init /\ [][LineNext]_vars

\* one run, from start_training to its terminal event, with the reader fed
\* raw lines
ReadNext ==
    \/ FirstStart
    \/ StopTraining
    \/ StopSleepDone
    \/ StopWaitReturn
    \/ Deliver
    \/ \E r \in Runs : Spawn(r)
    \/ \E r \in Runs : WorkerFinish(r)
    \/ \E r \in Runs : ReadRaw(r)
    \/ \E r \in Runs : ChildExit(r)

ReadSpec == Init /\ [][ReadNext]_vars

\* one run with the reader taken step by step (readline, then the body of
\* the loop), so that a stop request can fall between the two
ReaderNext ==
    \/ FirstStart
    \/ StopTraining
    \/ StopSleepDone
    \/ StopWaitReturn
    \/ \E r \in Runs : Spawn(r)
    \/ \E r \in Runs : WorkerFinish(r)
    \/ \E r \in Runs : ReadGet(r)
    \/ \E r \in Runs : ReadBody(r)
    \/ \E r \in Runs : ChildExit(r)

ReaderSpec == Init /\ [][ReaderNext]_vars

\* stop_training and what it waits for: the calls of the consumer, the
\* worker and the child.  The reader and the delivery of queued signals are
\* left out: they neither read nor write what these actions depend on
\* (mainpc, caller, training_thread, wpc, process), and a signal emitted here
\* simply stays in the queue.
StopNext ==
    \/ StartTraining
    \/ StopTraining
    \/ StopSleepDone
    \/ StopWaitReturn
    \/ \E r \in Runs : Spawn(r)
    \/ \E r \in Runs : WorkerFinish(r)
    \/ \E r \in Runs : ChildExit(r)

\* the GUI thread's sleep(1) and wait(5000) and the worker's join(timeout=2)
\* end by the passing of time; nothing is assumed of Popen or of the child
LiveSpec ==
    /\ Init /\ [][StopNext]_vars
    /\ WF_vars(StopSleepDone)
    /\ WF_vars(StopWaitReturn)
    /\ \A r \in Runs : WF_vars(WorkerFinish(r))

\* the same with the worker scheduled fairly as well: run() reaches Popen,
\* and its emit once the child has exited.  Nothing is assumed of the child:
\* it may run for ever.
WorkerFairSpec ==
    /\ Init /\ [][StopNext]_vars
    /\ WF_vars(StopSleepDone)
    /\ WF_vars(StopWaitReturn)
    /\ \A r \in Runs : WF_vars(Spawn(r))
    /\ \A r \in Runs : WF_vars(WorkerFinish(r))

\* ------------------------------------------------------------------------
\* Properties
\* ------------------------------------------------------------------------
\* terminal signals of run r emitted and not yet delivered
QueuedTerminalsOf(r) ==
    {i \in DOMAIN queue : queue[i].sig \in {"finished", "error"} /\ queue[i].run = r}

\* positions of the snapshots made from lines of run r
SnapshotsOf(r) == {i \in DOMAIN snapshots : snapshots[i].run = r}

\* stop was requested before the child of run r exited
Cancelled(r) == process[r] = "exited" /\ stopAtExit[r]

\* the child of run r exited with a nonzero code and stop was never requested
Failed(r) == process[r] = "exited" /\ returncode[r] # 0 /\ ~stopped[r]

\* C1: a run that was stopped before its child exited reports a terminal
\* outcome that is Cancelled and never Failed: its terminal event differs
\* from the terminal event of every failed run, whatever the exit code.
C1_CancelledNeverFailed ==
    \A r1, r2 \in Runs :
        (Cancelled(r1) /\ Failed(r2))
        => \A i \in DOMAIN terminals[r1], j \in DOMAIN terminals[r2] :
              terminals[r1][i] # terminals[r2][j]

\* C2: every run has at most one terminal event, emitted or delivered; a run
\* whose worker has ended has exactly one; the event is training_error
\* exactly for a failed launch, and otherwise training_finished, with True
\* exactly for exit code 0 without a stop request.
C2_OneTerminalEvent ==
    \A r \in Runs :
        LET n == Len(terminals[r]) + Cardinality(QueuedTerminalsOf(r))
        IN  /\ n <= 1
            /\ (wpc[r] = "done") <=> (n = 1)
            /\ \A i \in DOMAIN terminals[r] :
                 IF LaunchFailed(r)
                   THEN terminals[r][i].ev = "training_error"
                   ELSE /\ terminals[r][i].ev = "training_finished"
                        /\ terminals[r][i].arg = (returncode[r] = 0 /\ ~stopped[r])

C2_Witness ==
    \E r1, r2 \in Runs :
        /\ preempted[r1] # 0
        /\ Len(terminals[r1]) = 1 /\ Len(terminals[r2]) = 1
        /\ terminals[r1][1].ev = "training_finished"
        /\ terminals[r2][1].ev = "training_error"

\* C3: when the child exits and stop was never requested for the run, the
\* terminal event is training_finished, with True if and only if the exit
\* code is 0.
C3_SuccessIffExitZero ==
    \A r \in Runs :
        (process[r] = "exited" /\ ~stopped[r])
        => \A i \in DOMAIN terminals[r] :
              /\ terminals[r][i].ev = "training_finished"
              /\ terminals[r][i].arg = (returncode[r] = 0)

C3_Witness ==
    \E r1, r2 \in Runs :
        /\ ~stopped[r1] /\ returncode[r1] = 0 /\ terminals[r1] # <<>>
        /\ ~stopped[r2] /\ returncode[r2] = 1 /\ terminals[r2] # <<>>

\* C4: when start_training is called while run r is active, the consumer has
\* received the terminal event of r, and only one, by the time it receives
\* the first progress snapshot of the run that this call starts.
C4_TerminalBeforeNextSnapshot ==
    \A r \in Runs :
        (preempted[r] # 0 /\ SnapshotsOf(preempted[r]) # {})
        => Len(terminals[r]) = 1

\* C5: at most one run is live: while the child of an earlier run is alive or
\* its worker is running, no later run has launched its child.
C5_OneLiveRun ==
    \A r, r2 \in Runs :
        (r < r2 /\ process[r2] # "None")
        => (process[r] # "alive" /\ ~IsRunning(r))

\* C6: once start_training has stopped run r and reset the ProgressState for
\* the run it starts, no line of r is applied to it: a snapshot made from a
\* line of the stopped run was made under the start_time of that run.
C6_NoLineOfPreviousRun ==
    \A i \in DOMAIN snapshots :
        LET r == snapshots[i].run
        IN  (preempted[r] # 0 /\ wpc[preempted[r]] # "new")
            => snapshots[i].start = r

\* C7: once the first stop() on a run has returned, no later stop() sends a
\* signal to its child.
C7_SecondStopSendsNothing ==
    \A r \in Runs : sentFirst[r] >= 0 => Len(sent[r]) = sentFirst[r]

\* C8: stop_training always returns, and a worker that is still running when
\* the wait is over is reported by a warning and not awaited further.
C8_StopTrainingReturns ==
    /\ (mainpc \in {"sleep", "wait"}) ~> (mainpc = "loop")
    /\ [][(mainpc = "wait" /\ mainpc' # "wait")
            => /\ mainpc' = "loop"
               /\ warned' = IsRunning(training_thread)]_vars

C8_Witness ==
    /\ mainpc = "loop"
    /\ warned
    /\ \E r \in Runs : stopped[r] /\ IsRunning(r)

\* C9: a run whose child could not be spawned has the error event as its
\* terminal event, and neither a finished event nor a progress snapshot.
C9_LaunchFailureOnlyError ==
    \A r \in Runs :
        LaunchFailed(r)
        => /\ SnapshotsOf(r) = {}
           /\ \A i \in DOMAIN terminals[r] :
                terminals[r][i] = [ev |-> "training_error", arg |-> "launch"]
           /\ \A i \in DOMAIN queue :
                queue[i].run = r => queue[i].sig = "error"
           /\ Len(terminals[r]) + Cardinality(QueuedTerminalsOf(r)) = 1

C9_Witness ==
    \E r, r2 \in Runs :
        /\ LaunchFailed(r) /\ Len(terminals[r]) = 1
        /\ SnapshotsOf(r2) # {}

\* the line with the given text matches none of the recognized shapes
UnrecognizedText(t) == \E l \in Lines : l.id = t /\ Unrecognized(l)

Last(q) == q[Len(q)]

\* C10: processing a line that matches no recognized shape leaves
\* current_epoch, total_epochs, metrics and output_dir unchanged, and its
\* snapshot carries the current_epoch, total_epochs and metrics of the
\* previous snapshot of the run.
C10_UnrecognizedLineKeepsAll ==
    [][ ( /\ Len(snapshots') = Len(snapshots) + 1
          /\ UnrecognizedText(Last(snapshots').info.output_line) )
        => /\ UNCHANGED <<current_epoch, total_epochs, current_metrics, training_dir>>
           /\ ( /\ snapshots # <<>>
                /\ Last(snapshots).start = Last(snapshots').start )
              => /\ "metrics" \in DOMAIN Last(snapshots).info
                 /\ Last(snapshots').info.current_epoch = Last(snapshots).info.current_epoch
                 /\ Last(snapshots').info.total_epochs = Last(snapshots).info.total_epochs
                 /\ Last(snapshots').info.metrics = Last(snapshots).info.metrics ]_vars

\* ------------------------------------------------------------------------
\* Properties of process_progress_line
\* ------------------------------------------------------------------------
\* this step hands one line to process_progress_line
LineStep == Len(snapshots') = Len(snapshots) + 1

\* the line handed in this step and the dict emitted for it
NewLine == Last(snapshots').line
NewInfo == Last(snapshots').info

\* the except branch of lines 450-453 made this dict
Bare(info) == DOMAIN info = {"output_line"}

\* C11: every line handed to process_progress_line has exactly one snapshot,
\* whose output_line is that line, also when parsing raised.
C11_OneSnapshotPerLine ==
    /\ Len(snapshots) = nparsed
    /\ \A i \in DOMAIN snapshots :
         /\ "output_line" \in DOMAIN snapshots[i].info
         /\ snapshots[i].info.output_line = snapshots[i].line.id

C11_Witness ==
    \E i, j, k \in DOMAIN snapshots :
        /\ Unrecognized(snapshots[i].line)
        /\ snapshots[j].line.ep # <<>> /\ "progress" \in DOMAIN snapshots[j].info
        /\ snapshots[k].line.ep # <<>> /\ Bare(snapshots[k].info)

\* C12: whenever total_epochs > 0, current_epoch <= total_epochs.
C12_EpochWithinTotal == total_epochs > 0 => current_epoch <= total_epochs

\* a fraction <<n, d>> with d > 0 lies in [0, 100]
InPercentRange(p) == p[1] >= 0 /\ p[1] <= 100 * p[2]

\* C13: every progress value carried by a snapshot lies in [0, 100].
C13_ProgressInRange ==
    \A i \in DOMAIN snapshots :
        "progress" \in DOMAIN snapshots[i].info
        => InPercentRange(snapshots[i].info.progress)

\* the mapping holds a and b under the native names and under the aliases
FinalAliases(met, a, b) ==
    /\ {"top1_acc", "top5_acc", "precision", "mAP50-95", "recall"} \subseteq DOMAIN met
    /\ met["top1_acc"] = a /\ met["top5_acc"] = b
    /\ met["precision"] = a /\ met["mAP50-95"] = a /\ met["recall"] = b

\* the state and the emitted dict hold the values of the final-metrics line
FinalMirrored ==
    /\ FinalAliases(current_metrics', NewLine.fin[1], NewLine.fin[2])
    /\ "metrics" \in DOMAIN NewInfo
    /\ FinalAliases(NewInfo.metrics, NewLine.fin[1], NewLine.fin[2])

\* C14 (as stated): after any line matching the final-metrics pattern with
\* values (a, b), top1_acc = a, top5_acc = b, precision = a, mAP50-95 = a and
\* recall = b, in the state and in the snapshot of that line.
C14_FinalMetricsMirrored ==
    [][ (LineStep /\ NewLine.fin # <<>>) => FinalMirrored ]_vars

\* C14 (amended): the same, for a line that matches the final-metrics pattern
\* and none of the epoch, mAP and precision/recall patterns, which are
\* applied to the same line before and after it.
C14_FinalMetricsMirroredAlone ==
    [][ ( /\ LineStep
          /\ NewLine.fin # <<>>
          /\ NewLine.ep = <<>> /\ NewLine.map = <<>> /\ NewLine.pr = <<>> )
        => FinalMirrored ]_vars

C14_Witness ==
    \E i \in DOMAIN snapshots :
        /\ i > 1
        /\ snapshots[i].line = LFinal
        /\ snapshots[i - 1].line = LPR
        /\ snapshots[i].start = snapshots[i - 1].start
        /\ snapshots[i].info.metrics["precision"] = 911

\* the metric names a line carries
Carried(l) ==
    (IF l.ep # <<>> THEN {"loss"} ELSE {})
    \cup (IF l.fin # <<>>
            THEN {"top1_acc", "top5_acc", "mAP50-95", "precision", "recall"} ELSE {})
    \cup (IF l.map # <<>> THEN {"mAP50-95", "mAP50"} ELSE {})
    \cup (IF l.pr # <<>> THEN {"precision", "recall"} ELSE {})

\* the keys on which two mappings differ
Changed(d, e) ==
    {k \in (DOMAIN d) \cup (DOMAIN e) :
        k \notin DOMAIN d \/ k \notin DOMAIN e \/ d[k] # e[k]}

\* C15: metrics only accumulate within a run: a step that is not the start
\* of a new run loses no key and changes the value of a key only by
\* processing a line that carries that metric; the mapping is emptied by
\* the start of a new run and by nothing else.
C15_MetricsAccumulate ==
    [][ IF start_time' # start_time
          THEN current_metrics' = EmptyDict
          ELSE /\ DOMAIN current_metrics \subseteq DOMAIN current_metrics'
               /\ current_metrics' # current_metrics
                    => /\ LineStep
                       /\ Changed(current_metrics, current_metrics')
                             \subseteq Carried(NewLine) ]_vars

C15_Witness ==
    /\ Len(snapshots) = 3
    /\ snapshots[1].line = LEpoch /\ snapshots[2].line = LMap
    /\ snapshots[3].line = LFinal
    /\ snapshots[1].start = start_time
    /\ DOMAIN current_metrics =
          {"loss", "mAP50-95", "mAP50", "top1_acc", "top5_acc", "precision", "recall"}
    /\ current_metrics["mAP50-95"] = 911 /\ current_metrics["mAP50"] = 700

\* C18: when processing a line raises (the except branch makes the
\* snapshot), current_epoch, total_epochs and metrics are what they were
\* before the line.
C18_FailedLineKeepsState ==
    [][ (LineStep /\ Bare(NewInfo))
        => UNCHANGED <<current_epoch, total_epochs, current_metrics>> ]_vars

\* the value p is ((ce - 1) + cb/tb) / te * 100
IsWeightedProgress(p, e) ==
    /\ e.tb # 0
    /\ p[2] > 0
    /\ p[1] * (e.te * e.tb) = p[2] * (((e.ce - 1) * e.tb + e.cb) * 100)

\* C19 (as stated): the snapshot of every matching epoch line with
\* total_epochs > 0 carries progress = ((ce - 1) + cb/tb) / te * 100, and the
\* snapshot of one with total_epochs = 0 carries no progress.
C19_ProgressFormula ==
    \A i \in DOMAIN snapshots :
        snapshots[i].line.ep # <<>>
        => LET e == snapshots[i].line.ep[1]
               info == snapshots[i].info
           IN  IF e.te > 0
                 THEN /\ "progress" \in DOMAIN info
                      /\ IsWeightedProgress(info.progress, e)
                 ELSE "progress" \notin DOMAIN info

\* C19 (amended): the snapshot carries that value when current_epoch > 0,
\* total_epochs > 0, the total batch count is not 0 and the loss is a
\* number; it carries no progress in every other case.
C19_ProgressFormulaWhenComputed ==
    \A i \in DOMAIN snapshots :
        snapshots[i].line.ep # <<>>
        => LET e == snapshots[i].line.ep[1]
               info == snapshots[i].info
           IN  IF e.ce > 0 /\ e.te > 0 /\ e.tb # 0 /\ e.loss # BadNum
                 THEN /\ "progress" \in DOMAIN info
                      /\ IsWeightedProgress(info.progress, e)
                 ELSE "progress" \notin DOMAIN info

C19_Witness ==
    \E i, j, k \in DOMAIN snapshots :
        /\ snapshots[i].line = LEpoch /\ snapshots[i].info.progress = <<9, 2>>
        /\ snapshots[j].line = LEpochFirst /\ ~Bare(snapshots[j].info)
        /\ snapshots[k].line = LEpochZero /\ ~Bare(snapshots[k].info)

\* <<h, m, s>> is the duration of min minutes and sec seconds
IsDuration(hms, min, sec) ==
    /\ hms[1] * 3600 + hms[2] * 60 + hms[3] = min * 60 + sec
    /\ hms[2] \in 0..59 /\ hms[3] \in 0..59

\* the epoch line raises nothing: its loss is a number and no division by a
\* zero batch count is made
WellFormedEpoch(l) ==
    /\ l.ep # <<>>
    /\ l.ep[1].loss # BadNum
    /\ ~(l.ep[1].ce > 0 /\ l.ep[1].te > 0 /\ l.ep[1].tb = 0)
    /\ l.fin = <<>> /\ l.map = <<>> /\ l.pr = <<>>

\* C20: processing a well-formed epoch line sets current_epoch and
\* total_epochs to the parsed integers whatever they were, sets
\* metrics['loss'] to the parsed loss, in the state and in the snapshot, and
\* sets the snapshot's elapsed time and eta to the durations of the two
\* minute:second pairs of the line.
C20_EpochLineOverwrites ==
    [][ (LineStep /\ WellFormedEpoch(NewLine))
        => LET e == NewLine.ep[1]
           IN  /\ current_epoch' = e.ce
               /\ total_epochs' = e.te
               /\ "loss" \in DOMAIN current_metrics'
               /\ current_metrics'["loss"] = e.loss
               /\ NewInfo.metrics = current_metrics'
               /\ IF e.tm = <<>>
                    THEN DOMAIN NewInfo \cap {"elapsed_time", "eta"} = {}
                    ELSE /\ {"elapsed_time", "eta"} \subseteq DOMAIN NewInfo
                         /\ IsDuration(NewInfo.elapsed_time, e.tm[1], e.tm[2])
                         /\ IsDuration(NewInfo.eta, e.tm[3], e.tm[4]) ]_vars

C20_Witness ==
    /\ Len(snapshots) >= 2
    /\ snapshots[1].line = LEpoch /\ Last(snapshots).line = LEpochOver
    /\ snapshots[1].start = Last(snapshots).start
    /\ current_epoch = 7 /\ total_epochs = 3
    /\ Last(snapshots).info.elapsed_time = <<1, 1, 5>>

\* ------------------------------------------------------------------------
\* Properties of the reader and of stop()
\* ------------------------------------------------------------------------
\* the line was read from raw output holding an undecodable byte
FromInvalidBytes(l) ==
    "raw" \in DOMAIN l /\ \E i \in DOMAIN l.raw : l.raw[i] = InvalidByte

\* progress_line signals emitted and not yet delivered
QueuedLines == {i \in DOMAIN queue : queue[i].sig = "progress_line"}

\* C16: a line with undecodable bytes raises nothing and does not end the
\* stream: it is forwarded with a non-empty text, the reader leaves its loop
\* only on the stop flag, and every line read before a stop request is
\* forwarded and, once delivered, has its snapshot whose output_line is the
\* forwarded text.
C16_InvalidBytesReplaced ==
    /\ \A i \in QueuedLines :
         FromInvalidBytes(queue[i].arg) => queue[i].arg.id # ""
    /\ \A i \in DOMAIN snapshots :
         /\ snapshots[i].info.output_line = snapshots[i].line.id
         /\ FromInvalidBytes(snapshots[i].line)
              => /\ snapshots[i].info.output_line # ""
                 /\ ~Bare(snapshots[i].info)
    /\ \A r \in Runs :
         /\ rpc[r] = "done" => stopped[r]
         /\ (rpc[r] = "read" /\ ~stopped[r])
              => Len(snapshots) + Cardinality(QueuedLines) = nread

C16_Witness ==
    /\ Len(snapshots) = 2
    /\ FromInvalidBytes(snapshots[1].line)
    /\ snapshots[1].line.raw = <<InvalidByte>>
    /\ snapshots[1].info.output_line = ReplacementChar
    /\ snapshots[2].line = LEpoch2
    /\ current_epoch = 2 /\ total_epochs = 3

\* the signals a child has been sent are terminate, then possibly kill
TwoPhase(q) == q \in {<<>>, <<"terminate">>, <<"terminate", "kill">>}

\* C17: stop() sets the flag in every case; it sends terminate to a child
\* that is alive and nothing when there is no child or it has exited; kill
\* is sent only at the end of the grace period that follows terminate, and
\* only to a child that is still alive then.
C17_StopTwoPhase ==
    /\ []( \A r \in Runs : TwoPhase(sent[r]) )
    /\ [][ (mainpc = "loop" /\ mainpc' # "loop")
           => /\ stopped'[training_thread]
              /\ IF process[training_thread] = "alive"
                   THEN /\ sent'[training_thread] =
                              Append(sent[training_thread], "terminate")
                        /\ mainpc' = "sleep"
                   ELSE /\ sent' = sent
                        /\ mainpc' = "wait" ]_vars
    /\ [][ \A r \in Runs :
             (sent'[r] # sent[r] /\ mainpc # "loop")
             => /\ mainpc = "sleep" /\ r = training_thread
                /\ process[r] = "alive"
                /\ sent[r] = <<"terminate">> /\ sent'[r] = <<"terminate", "kill">> ]_vars
    /\ [][ (mainpc = "sleep" /\ mainpc' # "sleep" /\ process[training_thread] # "alive")
           => sent' = sent ]_vars

C17_Witness ==
    \E r1, r2 \in Runs :
        /\ sent[r1] = <<"terminate", "kill">>
        /\ sent[r2] = <<"terminate">> /\ process[r2] = "exited"
        /\ mainpc = "loop"

\* ------------------------------------------------------------------------
\* Properties of the output directory, the eta and the snapshot's copy
\* ------------------------------------------------------------------------
\* a 'Results saved to' line has been processed since the last start
SavedInRun ==
    \E i \in DOMAIN snapshots :
        snapshots[i].start = start_time /\ snapshots[i].line.saved # <<>>

\* C21: the output directory is set at most once per run: once a 'Results
\* saved to' line of the run has been processed no later line changes
\* training_dir, and the start of a new run leaves no directory of the
\* previous run.
C21_OutputDirSetOnce ==
    [][ /\ (LineStep /\ SavedInRun) => training_dir' = training_dir
        /\ start_time' # start_time => training_dir' = "" ]_vars

\* the seconds of a duration <<h, m, s>>
Seconds(hms) == hms[1] * 3600 + hms[2] * 60 + hms[3]

\* C22: the snapshot of a line that is not an epoch line carries an eta:
\* 'computing' while current_epoch = 0, and otherwise
\* (elapsed / current_epoch) * (total_epochs - current_epoch).
C22_FallbackEta ==
    \A i \in DOMAIN snapshots :
        snapshots[i].line.ep = <<>>
        => LET info == snapshots[i].info
           IN  /\ {"eta", "current_epoch", "total_epochs"} \subseteq DOMAIN info
               /\ IF info.current_epoch = 0
                    THEN info.eta = "computing"
                    ELSE /\ "elapsed_time" \in DOMAIN info
                         /\ Seconds(info.eta) * info.current_epoch =
                              Seconds(info.elapsed_time)
                                * (info.total_epochs - info.current_epoch)

\* C23: the metrics of the snapshot made for a line are the metrics of the
\* state right after that line, and no snapshot already emitted changes when
\* a later line is processed or a new run is started.
C23_SnapshotIsCopy ==
    [][ IF LineStep
          THEN /\ SubSeq(snapshots', 1, Len(snapshots)) = snapshots
               /\ "metrics" \in DOMAIN NewInfo => NewInfo.metrics = current_metrics'
          ELSE snapshots' = snapshots ]_vars

C23_Witness ==
    /\ Len(snapshots) >= 2
    /\ snapshots[1].line = LEpoch /\ snapshots[1].info.metrics = [loss |-> 431]
    /\ snapshots[2].line = LFinal /\ snapshots[2].start = snapshots[1].start
    /\ start_time > snapshots[1].start
    /\ current_metrics = EmptyDict

\* ------------------------------------------------------------------------
\* Properties of the run handle, the launch and the worker's wait
\* ------------------------------------------------------------------------
\* C24: once the terminal event of a run has been delivered, the manager's
\* training_thread no longer refers to that run.
C24_HandleDiscarded ==
    \A r \in Runs : terminals[r] # <<>> => training_thread # r

\* C25: after the launch of run r has failed, and until start_training is
\* called again, the manager holds nothing of r: neither its handle nor the
\* start_time that the call took for it.
C25_NothingKeptOfFailedLaunch ==
    \A r \in Runs :
        (LaunchFailed(r) /\ nstarts = r)
        => (training_thread # r /\ start_time # r)

\* a finished signal of run r has been emitted
FinishedEmitted(r) ==
    \/ \E i \in DOMAIN queue : queue[i].run = r /\ queue[i].sig = "finished"
    \/ \E i \in DOMAIN terminals[r] : terminals[r][i].ev = "training_finished"

\* C26: the worker of a launched run passes its wait once, when the child
\* has exited, and the finished signal is emitted only after it: no finished
\* signal exists for a run whose child is alive.
C26_FinishedAfterWait ==
    /\ []( \A r \in Runs : FinishedEmitted(r) => process[r] = "exited" )
    /\ [][ \A r \in Runs :
             /\ (wpc[r] = "wait" /\ wpc'[r] # "wait")
                  => (process[r] = "exited" /\ wpc'[r] = "done" /\ FinishedEmitted(r)')
             /\ (wpc[r] # "wait" /\ wpc'[r] = "wait")
                  => (wpc[r] = "spawn" /\ process[r] = "None" /\ process'[r] = "alive")
             /\ wpc[r] = "done" => wpc'[r] = "done" ]_vars

C26_Witness ==
    \E r1, r2 \in Runs :
        /\ FinishedEmitted(r1) /\ returncode[r1] = SigKillCode
        /\ FinishedEmitted(r2) /\ returncode[r2] = 0 /\ ~stopped[r2]

\* C28: no progress line of a run is emitted once the terminal signal of the
\* run has been emitted.
C28_NoLineAfterTerminal ==
    [][ \A r \in Runs :
          ( /\ Len(queue') = Len(queue) + 1
            /\ Last(queue').sig = "progress_line"
            /\ Last(queue').run = r )
          => wpc[r] # "done" ]_vars

\* the text of the error of lines 186
InvalidDirectoryMessage == "invalid classification data directory"

\* an error event with that text has been emitted to the consumer
InvalidDirectoryReported ==
    \/ \E i \in DOMAIN queue :
         queue[i].sig = "error" /\ queue[i].arg = InvalidDirectoryMessage
    \/ \E r \in Runs : \E i \in DOMAIN terminals[r] :
         /\ terminals[r][i].ev = "training_error"
         /\ terminals[r][i].arg = InvalidDirectoryMessage

\* C30: when start_training has found the classification folder invalid, no
\* worker and no child process is started for the call and an error event
\* with the invalid-directory message reaches the consumer.
C30_InvalidDirectoryReported ==
    (raised /\ mainpc = "loop")
    => /\ wpc[nstarts] = "new" /\ process[nstarts] = "None"
       /\ InvalidDirectoryReported

\* C27: once stop has been requested for a run whose worker has been
\* started, the child of the run is eventually not alive and the worker
\* eventually emits the terminal signal of the run.
C27_StopEndsRun ==
    \A r \in Runs :
        (stopped[r] /\ IsRunning(r)) ~> (process[r] # "alive" /\ wpc[r] = "done")

\* the reader of run r handles, in this step, the line it holds
BodyStep(r) ==
    /\ rpc[r] = "read" /\ held[r] # <<>>
    /\ (rpc'[r] # rpc[r] \/ held'[r] # held[r])

\* C29: a line that readline returned after the stop flag was set is not
\* forwarded: the reader ends its loop on it, and every line it forwards
\* was obtained with the flag not set.
C29_NoLateLineForwarded ==
    [][ \A r \in Runs :
          /\ (BodyStep(r) /\ held[r][1].late)
               => (queue' = queue /\ rpc'[r] = "done")
          /\ ( /\ Len(queue') = Len(queue) + 1
               /\ Last(queue').sig = "progress_line"
               /\ Last(queue').run = r )
               => (BodyStep(r) /\ ~held[r][1].late) ]_vars

C29_Witness ==
    \E r \in Runs :
        /\ rpc[r] = "done"
        /\ held[r] # <<>> /\ held[r][1].late
        /\ \E i \in QueuedLines : queue[i].run = r

====
